---- MODULE Spec2Model ----
(***************************************************************************)
(* HireFlow: semantic candidate ranking pipeline.                          *)
(*                                                                         *)
(* Model of the re-ranking service (src/src/services/reranking.py), the    *)
(* retrieval service (src/src/services/retrieval.py), the chatbot service  *)
(* (src/src/services/chatbot.py), the vector store service                 *)
(* (src/src/services/vector_store.py) and the command line pipeline        *)
(* (src/main.py over src/src/simple_pipeline_local.py).                    *)
(*                                                                         *)
(* Scores are fixed-point numbers in units of 1/10000, so 0.9 is 9000 and  *)
(* a 5% boost of 0.8 is 8400.  Strings are sequences of one-character      *)
(* strings, so that lower(), strip() and substring search are computed.    *)
(* None is the empty set and an optional integer k is the set {k}.         *)
(***************************************************************************)
EXTENDS Integers, Sequences, FiniteSets, TLC

VARIABLES
    program,          \* which program runs: "service" (the manager classes) or "main" (main.py)
    index,            \* the vector index: chunk ids in insertion order
    \* ---- ReRankingManager, its caller's arguments and its last call
    candidates,       \* the caller's list handed to a re-ranking call (retrieved_nodes)
    boost_keywords,   \* the caller's boost keyword list
    top_candidates,   \* ReRankingManager.top_candidates
    rk_call,          \* last re-ranking call: op, arguments, returned list, error
    \* ---- RetrievalManager and its last call
    configured_k,     \* similarity_top_k given to RetrievalManager.__init__
    similarity_top_k, \* RetrievalManager.similarity_top_k
    retriever,        \* RetrievalManager.retriever: None, or {k} for a retriever built with k
    retrieved_nodes,  \* RetrievalManager.retrieved_nodes
    rt_call,          \* last retrieval call: op, arguments, k used, error
    \* ---- main.py
    cli,              \* the run of run_full_pipeline: arguments, locals, outcome
    \* ---- ChatbotManager and its last call
    chat_engine,      \* ChatbotManager.chat_engine: "None" or "engine"
    memory,           \* ChatbotManager.memory: None, or {turns} for a buffer holding turns
    session,          \* start_interactive_session: "not_started", "reading", "chatting",
                      \* "returned", "raised"
    ch_call,          \* last chatbot call or loop step: op, message, outcome
    token_limit,      \* ChatbotManager.token_limit, in tokens
    start_memory,     \* the memory as create_chat_engine last left it (None before)
    pending,          \* the loop's user_question handed to self.chat and not yet answered
    in_flight,        \* number of self.chat calls of the loop that have not returned
    \* ---- VectorStoreManager, the disk and its last call
    persist_dir,      \* VectorStoreManager.persist_dir: a location
    disk,             \* what each location holds
    vs_index,         \* VectorStoreManager.index: None, or {idx}
    vs_call,          \* last vector store call: op, documents, returned value, exception
    last_saved,       \* the index the last successful save_index wrote to persist_dir,
                      \* while it is still what that location holds (None otherwise)
    \* ---- main.py, get_job_description_from_user
    jd_lines,         \* lines
    empty_line_count, \* empty_line_count
    jd_typed,         \* every line input() has returned so far
    jd_status,        \* "reading", "returned" or "raised"
    jd_result         \* the returned job description (<<>> before the return)

rerankVars == <<candidates, boost_keywords, top_candidates, rk_call>>
retrievalVars == <<configured_k, similarity_top_k, retriever, retrieved_nodes, rt_call>>
chatVars == <<chat_engine, memory, session, ch_call, token_limit, start_memory,
              pending, in_flight>>
storeVars == <<persist_dir, disk, vs_index, vs_call, last_saved>>
jdVars == <<jd_lines, empty_line_count, jd_typed, jd_status, jd_result>>
vars == <<program, index, candidates, boost_keywords, top_candidates, rk_call,
          configured_k, similarity_top_k, retriever, retrieved_nodes, rt_call, cli,
          chat_engine, memory, session, ch_call, token_limit, start_memory,
          pending, in_flight, persist_dir, disk, vs_index, vs_call, last_saved,
          jd_lines, empty_line_count, jd_typed, jd_status, jd_result>>

-----------------------------------------------------------------------------
(* Bounds of the model *)

MaxNodes == 3        \* longest candidate list / largest index
MaxTurns == 4        \* most turns the conversation memory is let to hold

\* largest top_n / top_k argument tried: one more than the longest list
MaxK == MaxNodes + 1

\* None, and an optional value
None == {}
Some(x) == {x}
Val(opt) == CHOOSE x \in opt : TRUE

\* Python truthiness of an optional integer: None and 0 are falsy
Truthy(opt) == opt # None /\ opt # Some(0)

\* integer arguments tried for top_n and top_k, and the same with None
IntArgs == (0 - 1)..MaxK
OptArgs == {None} \cup {Some(k) : k \in IntArgs}

-----------------------------------------------------------------------------
(* Strings *)

Min(a, b) == IF a <= b THEN a ELSE b
Max(a, b) == IF a >= b THEN a ELSE b

\* str.lower() on one character, for the letters the corpus uses
LowerChar(c) ==
    CASE c = "C" -> "c"
      [] c = "P" -> "p"
      [] c = "A" -> "a"
      [] c = "S" -> "s"
      [] c = "Q" -> "q"
      [] c = "L" -> "l"
      [] c = "D" -> "d"
      [] OTHER -> c

\* str.lower()
Lower(s) == [i \in DOMAIN s |-> LowerChar(s[i])]

\* Python's `sub in s` on strings: sub occurs in s as a contiguous substring
Contains(sub, s) ==
    \E i \in 0..(Len(s) - Len(sub)) : SubSeq(s, i + 1, i + Len(sub)) = sub

-----------------------------------------------------------------------------
(* The corpus: chunk texts, and scored nodes (NodeWithScore) *)

\* node.text of each chunk, by chunk id
ChunkText ==
    <<  <<"j", "s">>,                           \* "js": names no keyword
        <<"C", "P", "A">>,                      \* "CPA"
        <<"c", "p", "a", " ", "C", "P", "A">>,  \* "cpa CPA": the term twice
        <<"s", "q", "l", " ", "c", "p", "a">> >>  \* "sql cpa": two terms

\* the job descriptions used as queries
Queries == {"jd1", "jd2"}

\* similarity of each chunk to each query (the Embedder is opaque), in units of 1/10000
Similarity(query, c) ==
    IF c \notin DOMAIN ChunkText THEN 0     \* a chunk without text
    ELSE IF query = "jd1" THEN <<8000, 9000, 8000, -5000>>[c]
                          ELSE <<9000, -5000, 8000, 9000>>[c]

ChunkIds == DOMAIN ChunkText

\* similarity scores a metric in [-1, 1] can give, in units of 1/10000
Scores == {-5000, 8000, 9000}

\* NodeWithScore(node=..., score=...)
NodeWithScore(n, s) == [node |-> n, score |-> s]

\* node.text
TextOf(nd) == ChunkText[nd.node]

Range(s) == {s[i] : i \in DOMAIN s}

\* candidate lists: up to MaxNodes scored nodes over distinct chunks, in any order
NodeLists ==
    UNION {
        { s \in [1..n -> [node : ChunkIds, score : Scores]] :
            \A i, j \in 1..n : i # j => s[i].node # s[j].node }
        : n \in 0..Min(MaxNodes, Len(ChunkText)) }

\* boost keyword lists tried (None and [] are both the empty list: `if boost_keywords`)
KeywordLists ==
    {   <<>>,
        << <<"C", "P", "A">> >>,
        << <<"c", "p", "a">>, <<"C", "P", "A">>, <<"s", "q", "l">> >>,
        << <<"C", "P", "A">>, <<"c", "p", "a">>, <<"C", "p", "a">>,
           <<"s", "q", "l">>, <<"S", "q", "l">>, <<"p", "a">> >> }

\* indexes: up to MaxNodes distinct chunks in any insertion order
Indexes ==
    UNION {
        { s \in [1..n -> ChunkIds] : \A i, j \in 1..n : i # j => s[i] # s[j] }
        : n \in 0..Min(MaxNodes, Len(ChunkText)) }

-----------------------------------------------------------------------------
(* Python list operations *)

\* seq[:n] for any integer n
PySlicePrefix(s, n) ==
    IF n >= 0
    THEN SubSeq(s, 1, Min(n, Len(s)))
    ELSE SubSeq(s, 1, Max(Len(s) + n, 0))

\* mutation of InsertDesc: a later element goes before its equals (unstable sort)
RECURSIVE InsertDesc_Unstable(_, _)
InsertDesc_Unstable(x, s) ==
    IF s = <<>> THEN <<x>>
    ELSE IF Head(s).score > x.score
         THEN <<Head(s)>> \o InsertDesc_Unstable(x, Tail(s))
         ELSE <<x>> \o s

\* insert x into a list sorted by descending score, after every element whose
\* score is >= x.score (what a stable descending sort does with a later element)
RECURSIVE InsertDesc(_, _)
InsertDesc(x, s) ==
    IF s = <<>> THEN <<x>>
    ELSE IF Head(s).score >= x.score
         THEN <<Head(s)>> \o InsertDesc(x, Tail(s))
         ELSE <<x>> \o s

\* list.sort(key=lambda x: x.score, reverse=True): stable, descending
RECURSIVE SortDescFrom(_, _)
SortDescFrom(acc, rest) ==
    IF rest = <<>> THEN acc
    ELSE SortDescFrom(InsertDesc(Head(rest), acc), Tail(rest))

SortDesc(s) == SortDescFrom(<<>>, s)

-----------------------------------------------------------------------------
(* ReRankingManager *)

BoostPerMatchPct == 5     \* keyword_matches * 0.05
MaxBoostPct == 20         \* min(..., 0.20)

\* number of places where sub occurs in s
Occurrences(sub, s) ==
    Cardinality({ i \in 0..(Len(s) - Len(sub)) : SubSeq(s, i + 1, i + Len(sub)) = sub })

\* mutation of KeywordMatches: every occurrence of a keyword counts
RECURSIVE KeywordMatches_Occurrences(_, _)
KeywordMatches_Occurrences(kws, text) ==
    IF kws = <<>> THEN 0
    ELSE Occurrences(Lower(Head(kws)), Lower(text))
         + KeywordMatches_Occurrences(Tail(kws), text)

\* sum(1 for kw in boost_keywords if kw.lower() in text_lower)
RECURSIVE KeywordMatches(_, _)
KeywordMatches(kws, text) ==
    IF kws = <<>> THEN 0
    ELSE (IF Contains(Lower(Head(kws)), Lower(text)) THEN 1 ELSE 0)
         + KeywordMatches(Tail(kws), text)

\* mutation of BoostedScore: the 20% cap is missing
BoostedScore_Uncapped(score, keyword_matches) ==
    (score * (100 + keyword_matches * BoostPerMatchPct)) \div 100

\* boosted_score * (1 + min(keyword_matches * 0.05, 0.20))
BoostedScore(score, keyword_matches) ==
    (score * (100 + Min(keyword_matches * BoostPerMatchPct, MaxBoostPct))) \div 100

\* one pass of the loop body: the boosted copy of a node
BoostedNode(nd, kws) ==
    IF kws # <<>>
    THEN NodeWithScore(nd.node, BoostedScore(nd.score, KeywordMatches(kws, TextOf(nd))))
    ELSE NodeWithScore(nd.node, nd.score)

\* mutation of SimpleRerankResult: the list is sorted again before it is cut
SimpleRerankResult_Resorted(nodes, top_n) ==
    PySlicePrefix(SortDesc(nodes), top_n)

\* simple_rerank's return value: retrieved_nodes[:top_n]
SimpleRerankResult(nodes, top_n) ==
    PySlicePrefix(nodes, top_n)

\* mutation of AdvancedRerankResult: the cut is one short, [:top_n - 1]
AdvancedRerankResult_OffByOne(nodes, top_n, kws) ==
    LET boosted_nodes == [i \in DOMAIN nodes |-> BoostedNode(nodes[i], kws)]
    IN  PySlicePrefix(SortDesc(boosted_nodes), top_n - 1)

\* advanced_rerank's return value: boost every node, sort, take [:top_n]
AdvancedRerankResult(nodes, top_n, kws) ==
    LET boosted_nodes == [i \in DOMAIN nodes |-> BoostedNode(nodes[i], kws)]
    IN  PySlicePrefix(SortDesc(boosted_nodes), top_n)

NoRerankCall == [op |-> "none", nodes |-> <<>>, top_n |-> 0, keywords |-> <<>>,
                 result |-> <<>>, error |-> "none"]

\* ReRankingManager.simple_rerank(retrieved_nodes, job_description, top_n)
SimpleRerank ==
    /\ program = "service"
    /\ \E top_n \in IntArgs :
          /\ top_candidates' = SimpleRerankResult(candidates, top_n)
          /\ rk_call' = [op |-> "simple", nodes |-> candidates, top_n |-> top_n,
                         keywords |-> <<>>, result |-> top_candidates', error |-> "none"]
    /\ UNCHANGED <<storeVars, jdVars, program, index, candidates, boost_keywords,
                   retrievalVars, cli, chatVars>>

\* mutation of InputAfterAdvancedRerank: the boost is written to the input's nodes
InputAfterAdvancedRerank_InPlace(nodes, kws) ==
    [i \in DOMAIN nodes |-> BoostedNode(nodes[i], kws)]

\* the caller's list after advanced_rerank: lines 88-104 read node.score and
\* node.text, build new NodeWithScore objects and sort the new list only
InputAfterAdvancedRerank(nodes, kws) == nodes

\* ReRankingManager.advanced_rerank(retrieved_nodes, job_description, top_n, boost_keywords)
AdvancedRerank ==
    /\ program = "service"
    /\ \E top_n \in IntArgs :
          /\ candidates' = InputAfterAdvancedRerank(candidates, boost_keywords)
          /\ top_candidates' = AdvancedRerankResult(candidates, top_n, boost_keywords)
          /\ rk_call' = [op |-> "advanced", nodes |-> candidates, top_n |-> top_n,
                         keywords |-> boost_keywords, result |-> top_candidates',
                         error |-> "none"]
    /\ UNCHANGED <<storeVars, jdVars, program, index, boost_keywords, retrievalVars, cli,
                   chatVars>>

-----------------------------------------------------------------------------
(* The vector index and llama_index's VectorIndexRetriever *)

\* the index's chunks scored against a query, in insertion order
Scored(idx, query) == [i \in DOMAIN idx |-> NodeWithScore(idx[i], Similarity(query, idx[i]))]

\* VectorIndexRetriever(index, similarity_top_k=k).retrieve(query): for k >= 1 the
\* k most similar chunks in descending order (ties in insertion order); for
\* k <= 0 the library's behaviour is not specified: it may raise, or return
\* any prefix of the ranking
LibraryRetrieve(idx, query, k) ==
    LET ranking == SortDesc(Scored(idx, query))
    IN  IF k >= 1
        THEN { [raised |-> FALSE, nodes |-> SubSeq(ranking, 1, Min(k, Len(ranking)))] }
        ELSE { [raised |-> TRUE, nodes |-> <<>>] }
             \cup { [raised |-> FALSE, nodes |-> SubSeq(ranking, 1, n)] : n \in 0..Len(ranking) }

-----------------------------------------------------------------------------
(* RetrievalManager *)

\* mutation of UpdatedTopK: the supplied top_k is not stored
UpdatedTopK_Ignored(current, top_k) == current

\* lines 68-70: `if top_k is not None: self.similarity_top_k = top_k`
UpdatedTopK(current, top_k) ==
    IF top_k # None THEN Val(top_k) ELSE current

\* mutation of UpdatedRetriever: `or top_k is not None` is missing
UpdatedRetriever_OnlyIfMissing(current, top_k, new_k) ==
    IF current = None THEN Some(new_k) ELSE current

\* lines 72-74 with create_retriever: the retriever after the call's (re)creation step
UpdatedRetriever(current, top_k, new_k) ==
    IF current = None \/ top_k # None THEN Some(new_k) ELSE current

NoRetrievalCall == [op |-> "none", query |-> "", top_k |-> None, used_k |-> None,
                    queried |-> FALSE, error |-> "none"]

\* RetrievalManager.create_retriever()
CreateRetriever ==
    /\ program = "service"
    /\ retriever' = Some(similarity_top_k)
    /\ rt_call' = [op |-> "create_retriever", query |-> "", top_k |-> None,
                   used_k |-> None, queried |-> FALSE, error |-> "none"]
    /\ UNCHANGED <<storeVars, jdVars, program, index, rerankVars, configured_k, similarity_top_k,
                   retrieved_nodes, cli, chatVars>>

\* RetrievalManager.retrieve(query, top_k)
Retrieve ==
    /\ program = "service"
    /\ \E query \in Queries, top_k \in OptArgs :
          /\ similarity_top_k' = UpdatedTopK(similarity_top_k, top_k)
          /\ retriever' = UpdatedRetriever(retriever, top_k, similarity_top_k')
          /\ \E out \in LibraryRetrieve(index, query, Val(retriever')) :
                /\ retrieved_nodes' = IF out.raised THEN retrieved_nodes ELSE out.nodes
                /\ rt_call' = [op |-> "retrieve", query |-> query, top_k |-> top_k,
                               used_k |-> retriever', queried |-> TRUE,
                               error |-> IF out.raised THEN "LibraryError" ELSE "none"]
    /\ UNCHANGED <<storeVars, jdVars, program, index, rerankVars, configured_k, cli, chatVars>>

-----------------------------------------------------------------------------
(* main.py: run_full_pipeline, steps 2 to 6 *)

TOP_K_CANDIDATES == 10    \* config/settings.py
DefaultTopN == 3          \* `args.top_n if args.top_n else 3`

NoCliRun == [done |-> FALSE, outcome |-> "none", args_top_k |-> None, args_top_n |-> None,
             top_k |-> None, top_n |-> None, queried |-> FALSE,
             retrieved_nodes |-> <<>>, top_candidates |-> <<>>]

\* `args.top_k if args.top_k else TOP_K_CANDIDATES`
CliTopK(args_top_k) == IF Truthy(args_top_k) THEN Val(args_top_k) ELSE TOP_K_CANDIDATES

\* `args.top_n if args.top_n else 3`
CliTopN(args_top_n) == IF Truthy(args_top_n) THEN Val(args_top_n) ELSE DefaultTopN

\* mutation of NoDocuments: the pipeline goes on without the check
NoDocuments_Unchecked(documents) == FALSE

\* line 136: `if not documents`
NoDocuments(documents) == documents = <<>>

\* run_full_pipeline(args): ingest, index, retrieve_candidates, simple_rerank
CliPipeline ==
    /\ program = "main"
    /\ ~cli.done
    /\ \E args_top_k \in OptArgs, args_top_n \in OptArgs, query \in Queries :
          IF NoDocuments(index)
          THEN \* `if not documents: ... return`
               cli' = [NoCliRun EXCEPT !.done = TRUE, !.outcome = "no_documents",
                          !.args_top_k = args_top_k, !.args_top_n = args_top_n]
          ELSE LET top_k == CliTopK(args_top_k)
                   top_n == CliTopN(args_top_n)
               IN  \E out \in LibraryRetrieve(index, query, top_k) :
                      IF out.raised
                      THEN \* `except Exception as e: ... sys.exit(1)`
                           cli' = [NoCliRun EXCEPT !.done = TRUE, !.outcome = "exit(1)",
                                      !.args_top_k = args_top_k, !.args_top_n = args_top_n,
                                      !.top_k = Some(top_k), !.queried = TRUE]
                      ELSE cli' = [done |-> TRUE, outcome |-> "complete",
                                   args_top_k |-> args_top_k, args_top_n |-> args_top_n,
                                   top_k |-> Some(top_k), top_n |-> Some(top_n),
                                   queried |-> TRUE, retrieved_nodes |-> out.nodes,
                                   top_candidates |-> SimpleRerankResult(out.nodes, top_n)]
    /\ UNCHANGED <<storeVars, jdVars, program, index, rerankVars, retrievalVars, chatVars>>

-----------------------------------------------------------------------------
(* Console input and the chat engine (llama_index's context chat engine) *)

\* str.strip(): leading and trailing blanks removed
RECURSIVE StripLeft(_)
StripLeft(s) == IF s # <<>> /\ Head(s) = " " THEN StripLeft(Tail(s)) ELSE s

RECURSIVE StripRight(_)
StripRight(s) ==
    IF s # <<>> /\ s[Len(s)] = " " THEN StripRight(SubSeq(s, 1, Len(s) - 1)) ELSE s

Strip(s) == StripRight(StripLeft(s))

\* ['exit', 'quit', 'bye', 'q']
ExitCommands ==
    { <<"e", "x", "i", "t">>, <<"q", "u", "i", "t">>, <<"b", "y", "e">>, <<"q">> }

\* lines typed at the "You: " prompt
InputLines ==
    { <<"e", "x", "i", "t">>, <<" ", "Q", " ">>, <<>>, <<" ">>,
      <<"h", "i">>, <<" ", "y", "o", " ">> }

\* messages passed to ChatbotManager.chat by a caller
Messages == { <<"h", "i">>, <<" ">> }

\* job descriptions given at session start (None: no job description)
JobDescriptions == { None, Some(<<"c", "p", "a">>) }

\* the f-string that wraps the job description
InitialMessage(jd) == <<"J", "D", ":">> \o jd

\* the Generator's text for a message (the LLM is opaque)
Reply(message) == <<"r", "e", ":">> \o message

Turn(role, text) == [role |-> role, text |-> text]

\* token limits a ChatbotManager is built with (3000 by default; scaled down)
TokenLimits == {10, 16}

\* tokens of a turn: one per character (the tokenizer is opaque)
Tokens(turn) == Len(turn.text)

RECURSIVE TokenCount(_)
TokenCount(turns) ==
    IF turns = <<>> THEN 0 ELSE Tokens(Head(turns)) + TokenCount(Tail(turns))

\* the conversation memory after insertion: oldest turns are evicted until the
\* token count is within the limit, never leaving an assistant turn first (a
\* reply is not kept without its question); nothing is kept when nothing fits
RECURSIVE Evict(_, _)
Evict(turns, limit) ==
    IF turns = <<>> THEN <<>>
    ELSE IF Head(turns).role = "user" /\ TokenCount(turns) <= limit THEN turns
    ELSE Evict(Tail(turns), limit)

\* chat_engine.chat(message) over a memory holding `turns`: one index query, one
\* Generator call; on success the user turn and the assistant turn are appended;
\* when the Generator fails or the wait is interrupted no assistant turn is
\* appended, and the user turn is or is not, depending on the library's order of
\* steps; when the index query fails the Generator is not reached
EngineChat(turns, message, limit) ==
    LET user == <<Turn("user", message)>>
        both == <<Turn("user", message), Turn("assistant", Reply(message))>>
    IN  { [error |-> "none", index_queries |-> 1, generator_calls |-> 1,
           turns |-> Evict(turns \o both, limit),
           evicted |-> Evict(turns \o both, limit) # turns \o both,
           response |-> Some(Reply(message))] }
        \cup
        { [error |-> e, index_queries |-> 1, generator_calls |-> 1,
           turns |-> Evict(turns \o t, limit),
           evicted |-> Evict(turns \o t, limit) # turns \o t,
           response |-> None] :
             e \in {"GeneratorFailure", "KeyboardInterrupt"}, t \in {<<>>, user} }
        \cup
        { [error |-> "EmbedderFailure", index_queries |-> 1, generator_calls |-> 0,
           turns |-> turns, evicted |-> FALSE, response |-> None] }

-----------------------------------------------------------------------------
(* ChatbotManager *)

NoChatCall == [op |-> "none", message |-> <<>>, during |-> "not_started", error |-> "none",
               caught |-> FALSE, index_queries |-> 0, generator_calls |-> 0,
               memory_changed |-> FALSE, evicted |-> FALSE, displayed |-> None]

\* room for one more exchange in the bounded memory
RoomFor(mem) == IF mem = None THEN TRUE ELSE Len(Val(mem)) + 2 <= MaxTurns

\* mutation of BufferTokenLimit: the buffer is built with twice the manager's limit
BufferTokenLimit_Doubled(limit) == limit + limit

\* line 66: ChatMemoryBuffer.from_defaults(token_limit=self.token_limit)
BufferTokenLimit(limit) == limit

\* the manager's state after create_chat_engine(job_description), for one outcome
\* of the initial chat_engine.chat: lines 62-95
CreateChatEngineOutcomes(jd, limit) ==
    IF jd # None /\ Val(jd) # <<>>
    THEN EngineChat(<<>>, InitialMessage(Val(jd)), BufferTokenLimit(limit))
    ELSE { [error |-> "none", index_queries |-> 0, generator_calls |-> 0,
            turns |-> <<>>, evicted |-> FALSE, response |-> None] }

\* the initial message create_chat_engine sends for a job description
StartMessage(jd) == IF jd # None /\ Val(jd) # <<>> THEN InitialMessage(Val(jd)) ELSE <<>>

\* ChatbotManager.create_chat_engine(job_description), called by a caller
CreateChatEngine ==
    /\ program = "service"
    /\ session \notin {"reading", "chatting"}
    /\ \E jd \in JobDescriptions : \E out \in CreateChatEngineOutcomes(jd, token_limit) :
          /\ chat_engine' = "engine"
          /\ memory' = Some(out.turns)
          /\ start_memory' = memory'
          /\ ch_call' = [op |-> "create_chat_engine", message |-> StartMessage(jd),
                         during |-> session,
                         error |-> out.error, caught |-> FALSE,
                         index_queries |-> out.index_queries,
                         generator_calls |-> out.generator_calls,
                         memory_changed |-> memory' # memory, evicted |-> out.evicted,
                         displayed |-> None]
    /\ UNCHANGED <<storeVars, jdVars, program, index, rerankVars, retrievalVars, cli,
                   session, token_limit,
                   pending, in_flight>>

\* what chat(message) does to the manager: lines 107-111
ChatOutcomes(engine, mem, message, limit) ==
    IF engine = "None"
    THEN { [error |-> "RuntimeError", index_queries |-> 0, generator_calls |-> 0,
            memory |-> mem, evicted |-> FALSE, response |-> None] }
    ELSE { [error |-> o.error, index_queries |-> o.index_queries,
            generator_calls |-> o.generator_calls,
            memory |-> Some(o.turns), evicted |-> o.evicted, response |-> o.response] :
              o \in EngineChat(Val(mem), message, BufferTokenLimit(limit)) }

\* ChatbotManager.chat(message), called by a caller
Chat ==
    /\ program = "service"
    /\ session \notin {"reading", "chatting"}
    /\ RoomFor(memory)
    /\ \E message \in Messages :
       \E out \in ChatOutcomes(chat_engine, memory, message, token_limit) :
          /\ memory' = out.memory
          /\ ch_call' = [op |-> "chat", message |-> message, during |-> session,
                         error |-> out.error, caught |-> FALSE,
                         index_queries |-> out.index_queries,
                         generator_calls |-> out.generator_calls,
                         memory_changed |-> memory' # memory, evicted |-> out.evicted,
                         displayed |-> None]
    /\ UNCHANGED <<storeVars, jdVars, program, index, rerankVars, retrievalVars, cli,
                   chat_engine, session,
                   token_limit, start_memory, pending, in_flight>>

\* mutation of ResetMemory: a buffer is made when there is none
ResetMemory_Creates(mem) == Some(<<>>)

\* the memory after reset_conversation(): lines 115-116, memory.reset() empties the buffer
ResetMemory(mem) == IF mem # None THEN Some(<<>>) ELSE mem

\* ChatbotManager.reset_conversation(), called by a caller
ResetConversation ==
    /\ program = "service"
    /\ session \notin {"reading", "chatting"}
    /\ memory' = ResetMemory(memory)
    /\ ch_call' = [NoChatCall EXCEPT !.op = "reset_conversation", !.during = session,
                                     !.memory_changed = (memory' # memory)]
    /\ UNCHANGED <<storeVars, jdVars, program, index, rerankVars, retrievalVars, cli,
                   chat_engine, session,
                   token_limit, start_memory, pending, in_flight>>

\* mutation of SessionAfterStart: a failed start is swallowed and the loop entered
SessionAfterStart_Swallowed(error) == "reading"

\* line 146: create_chat_engine is called outside the loop's try, so its
\* exception leaves start_interactive_session; otherwise the loop is entered
SessionAfterStart(error) == IF error = "none" THEN "reading" ELSE "raised"

\* start_interactive_session(job_description) up to the first prompt: lines 125-149
StartInteractiveSession ==
    /\ program = "service"
    /\ session \notin {"reading", "chatting"}
    /\ \E jd \in JobDescriptions : \E out \in CreateChatEngineOutcomes(jd, token_limit) :
          /\ chat_engine' = "engine"
          /\ memory' = Some(out.turns)
          /\ start_memory' = memory'
          /\ session' = SessionAfterStart(out.error)
          /\ ch_call' = [op |-> "start_interactive_session", message |-> StartMessage(jd),
                         during |-> session, error |-> out.error, caught |-> FALSE,
                         index_queries |-> out.index_queries,
                         generator_calls |-> out.generator_calls,
                         memory_changed |-> memory' # memory, evicted |-> out.evicted,
                         displayed |-> None]
    /\ UNCHANGED <<storeVars, jdVars, program, index, rerankVars, retrievalVars, cli, token_limit,
                   pending, in_flight>>

\* whether a stripped line leaves the loop: `user_question.lower() in [...]`
IsExitCommand(user_question) == Lower(user_question) \in ExitCommands

\* mutation of CanReadInput: the prompt is shown again while a chat call is running
CanReadInput_WhileChatting(sess) == sess \in {"reading", "chatting"}

\* the loop is at input("You: "): lines 149-152, reached only after the previous
\* iteration's self.chat has returned or raised
CanReadInput(sess) == sess = "reading"

\* the first half of a loop iteration, for a line read by input(): lines 150-166;
\* an exit command leaves the loop, a blank line is skipped, anything else is
\* handed to self.chat
LoopInput ==
    /\ program = "service"
    /\ CanReadInput(session)
    /\ \E line \in InputLines :
          LET user_question == Strip(line)
              seen == [NoChatCall EXCEPT !.op = "input", !.message = user_question,
                                         !.during = "reading"]
          IN  /\ ch_call' = seen
              /\ IF IsExitCommand(user_question)
                 THEN /\ session' = "returned"
                      /\ UNCHANGED <<pending, in_flight>>
                 ELSE IF user_question = <<>>
                 THEN UNCHANGED <<session, pending, in_flight>>
                 ELSE /\ RoomFor(memory)
                      /\ session' = "chatting"
                      /\ pending' = user_question
                      /\ in_flight' = in_flight + 1
    /\ UNCHANGED <<storeVars, jdVars, program, index, rerankVars, retrievalVars, cli, chat_engine, memory,
                   token_limit, start_memory>>

\* mutation of SessionAfterChat: any exception leaves the loop
SessionAfterChat_BreakOnError(error) == IF error = "none" THEN "reading" ELSE "returned"

\* where the loop goes after self.chat: lines 169-181; KeyboardInterrupt breaks,
\* any other exception is printed and the loop continues
SessionAfterChat(error) == IF error = "KeyboardInterrupt" THEN "returned" ELSE "reading"

\* mutation of LoopChatOutcomes: a failed call is tried once more in the handler
LoopChatOutcomes_RetryOnce(engine, mem, message, limit) ==
    { o \in ChatOutcomes(engine, mem, message, limit) : o.error = "none" }
    \cup
    { [o2 EXCEPT !.generator_calls = o1.generator_calls + o2.generator_calls,
                 !.index_queries = o1.index_queries + o2.index_queries] :
        o1 \in { o \in ChatOutcomes(engine, mem, message, limit) : o.error # "none" },
        o2 \in ChatOutcomes(engine, mem, message, limit) }

\* the calls the loop makes for one accepted input: line 169, one self.chat
LoopChatOutcomes(engine, mem, message, limit) ==
    ChatOutcomes(engine, mem, message, limit)

\* the second half of a loop iteration: self.chat(user_question) returns or
\* raises, lines 169-181
LoopChat ==
    /\ program = "service"
    /\ session = "chatting"
    /\ \E out \in LoopChatOutcomes(chat_engine, memory, pending, token_limit) :
          /\ memory' = out.memory
          /\ session' = SessionAfterChat(out.error)
          /\ ch_call' = [op |-> "turn", message |-> pending, during |-> "reading",
                         error |-> out.error, caught |-> (out.error # "none"),
                         index_queries |-> out.index_queries,
                         generator_calls |-> out.generator_calls,
                         memory_changed |-> memory' # memory, evicted |-> out.evicted,
                         displayed |-> out.response]
    /\ pending' = <<>>
    /\ in_flight' = in_flight - 1
    /\ UNCHANGED <<storeVars, jdVars, program, index, rerankVars, retrievalVars, cli, chat_engine,
                   token_limit, start_memory>>

\* Ctrl-C at the prompt: input() raises KeyboardInterrupt, lines 173-177
LoopInterrupt ==
    /\ program = "service"
    /\ session = "reading"
    /\ session' = "returned"
    /\ ch_call' = [NoChatCall EXCEPT !.op = "input", !.during = "reading",
                                     !.error = "KeyboardInterrupt", !.caught = TRUE]
    /\ UNCHANGED <<storeVars, jdVars, program, index, rerankVars, retrievalVars, cli, chat_engine, memory,
                   token_limit, start_memory, pending, in_flight>>

\* end of input at the prompt: input() raises EOFError, which `except Exception`
\* prints before the loop prompts again, lines 178-181
LoopEndOfInput ==
    /\ program = "service"
    /\ session = "reading"
    /\ ch_call' = [NoChatCall EXCEPT !.op = "input", !.during = "reading",
                                     !.error = "EOFError", !.caught = TRUE]
    /\ UNCHANGED <<storeVars, jdVars, program, index, rerankVars, retrievalVars, cli, chat_engine, memory,
                   session, token_limit, start_memory, pending, in_flight>>

-----------------------------------------------------------------------------
(* Documents, the disk and llama_index's index construction and storage *)

\* a document whose extracted text is empty (a scanned page, say)
EmptyDoc == 0

\* Document.text, by document id: the corpus texts, and the empty text
DocText(d) == IF d = EmptyDoc THEN <<>> ELSE ChunkText[d]

\* document lists handed to index creation
DocumentLists == { <<>>, <<1, 2>>, <<3, 1>>, <<1, EmptyDoc>>, <<EmptyDoc>> }

\* the documents of a list that have text, in order
RECURSIVE WithText(_)
WithText(documents) ==
    IF documents = <<>> THEN <<>>
    ELSE (IF DocText(Head(documents)) # <<>> THEN <<Head(documents)>> ELSE <<>>)
         \o WithText(Tail(documents))

\* VectorStoreIndex.from_documents(documents): one chunk per document, in order;
\* what the library does with a document without text is not specified: it may
\* index a chunk for it, leave it out, or raise
LibraryFromDocuments(documents) ==
    IF WithText(documents) = documents
    THEN { [raised |-> FALSE, index |-> documents] }
    ELSE { [raised |-> FALSE, index |-> documents],
           [raised |-> FALSE, index |-> WithText(documents)],
           [raised |-> TRUE, index |-> <<>>] }

\* the locations an index can be persisted at
DefaultLocation == "vector_store"
Locations == {DefaultLocation, "custom"}

\* what a location holds: no directory, an empty directory, files that cannot
\* be read back, or the files of a persisted index (its chunks with their places)
Content(kind, nodes) == [kind |-> kind, nodes |-> nodes]
Missing == Content("missing", {})
EmptyDir == Content("empty", {})
Corrupt == Content("corrupt", {})

\* storage_context.persist: the files written for an index
Persisted(idx) == Content("index", { [pos |-> i, chunk |-> idx[i]] : i \in DOMAIN idx })

\* load_index_from_storage: the index read back from the files
Loaded(content) ==
    [i \in 1..Cardinality(content.nodes) |->
        (CHOOSE e \in content.nodes : e.pos = i).chunk]

\* storage_context.persist(persist_dir) over what the location held: the files
\* are written, or the write fails and leaves the old content or unreadable files
LibraryPersist(before, idx) ==
    { [raised |-> FALSE, content |-> Persisted(idx)] }
    \cup { [raised |-> TRUE, content |-> c] : c \in {before, Corrupt} }

\* StorageContext.from_defaults + load_index_from_storage on an existing
\* directory: the index, or an exception when the files are absent or unreadable
LibraryLoad(content) ==
    IF content.kind = "index"
    THEN { [raised |-> FALSE, index |-> Loaded(content)] }
    ELSE { [raised |-> TRUE, index |-> <<>>] }

-----------------------------------------------------------------------------
(* VectorStoreManager *)

NoStoreCall == [op |-> "none", documents |-> <<>>, found |-> "none", returned |-> None,
                ok |-> FALSE, raised |-> "none"]

\* lines 30-34: the persist_dir argument, or the default directory
PersistDir(arg) == IF arg # None THEN Val(arg) ELSE DefaultLocation

\* line 36: self.persist_dir.mkdir(exist_ok=True)
AfterMkdir(d, dir) == IF d[dir].kind = "missing" THEN [d EXCEPT ![dir] = EmptyDir] ELSE d

\* VectorStoreManager.create_index(documents)
CreateIndex ==
    /\ program = "service"
    /\ \E documents \in DocumentLists : \E out \in LibraryFromDocuments(documents) :
          /\ vs_index' = IF out.raised THEN vs_index ELSE Some(out.index)
          /\ vs_call' = [op |-> "create_index", documents |-> documents, found |-> "none",
                         returned |-> IF out.raised THEN None ELSE Some(out.index),
                         ok |-> ~out.raised,
                         raised |-> IF out.raised THEN "LibraryError" ELSE "none"]
    /\ UNCHANGED <<persist_dir, disk, last_saved>>
    /\ UNCHANGED <<jdVars, program, index, rerankVars, retrievalVars, cli, chatVars>>

\* mutation of SaveLocation: the index is always written to the default directory
SaveLocation_Default(dir) == DefaultLocation

\* line 81: persist(persist_dir=str(self.persist_dir))
SaveLocation(dir) == dir

\* the disk and the method's result after save_index's persist step: lines 80-87
SaveOutcomes(d, dir, idx) ==
    { [disk |-> [d EXCEPT ![SaveLocation(dir)] = out.content], ok |-> ~out.raised] :
        out \in LibraryPersist(d[SaveLocation(dir)], idx) }

\* what is known to be stored at dir after a save: the index on success, the
\* earlier one while the files are untouched
SavedAfter(saved, d, dir, out, idx) ==
    IF out.ok THEN Some(idx)
    ELSE IF out.disk[dir] = d[dir] THEN saved ELSE None

\* VectorStoreManager.save_index()
SaveIndex ==
    /\ program = "service"
    /\ IF vs_index = None
       THEN /\ vs_call' = [NoStoreCall EXCEPT !.op = "save_index"]
            /\ UNCHANGED <<disk, last_saved>>
       ELSE \E out \in SaveOutcomes(disk, persist_dir, Val(vs_index)) :
               /\ disk' = out.disk
               /\ last_saved' = SavedAfter(last_saved, disk, persist_dir, out, Val(vs_index))
               /\ vs_call' = [NoStoreCall EXCEPT !.op = "save_index", !.ok = out.ok]
    /\ UNCHANGED <<persist_dir, vs_index>>
    /\ UNCHANGED <<jdVars, program, index, rerankVars, retrievalVars, cli, chatVars>>

\* load_index's outcomes over what persist_dir holds: lines 96-108; a missing
\* directory and a failed read both return None, a successful read the index
LoadOutcomes(content) ==
    IF content.kind = "missing"
    THEN { [returned |-> None] }
    ELSE { [returned |-> IF out.raised THEN None ELSE Some(out.index)] :
             out \in LibraryLoad(content) }

\* VectorStoreManager.load_index()
LoadIndex ==
    /\ program = "service"
    /\ \E out \in LoadOutcomes(disk[persist_dir]) :
          /\ vs_index' = IF out.returned # None THEN out.returned ELSE vs_index
          /\ vs_call' = [NoStoreCall EXCEPT !.op = "load_index",
                                            !.found = disk[persist_dir].kind,
                                            !.returned = out.returned,
                                            !.ok = (out.returned # None)]
    /\ UNCHANGED <<persist_dir, disk, last_saved>>
    /\ UNCHANGED <<jdVars, program, index, rerankVars, retrievalVars, cli, chatVars>>

\* VectorStoreManager.create_and_save_index(documents): create_index, then
\* save_index whose result is dropped, lines 121-123
CreateAndSaveIndex ==
    /\ program = "service"
    /\ \E documents \in DocumentLists : \E made \in LibraryFromDocuments(documents) :
          IF made.raised
          THEN /\ vs_call' = [NoStoreCall EXCEPT !.op = "create_and_save_index",
                                                 !.documents = documents,
                                                 !.raised = "LibraryError"]
               /\ UNCHANGED <<vs_index, disk, last_saved>>
          ELSE \E out \in SaveOutcomes(disk, persist_dir, made.index) :
                  /\ vs_index' = Some(made.index)
                  /\ disk' = out.disk
                  /\ last_saved' = SavedAfter(last_saved, disk, persist_dir, out, made.index)
                  /\ vs_call' = [op |-> "create_and_save_index", documents |-> documents,
                                 found |-> "none", returned |-> Some(made.index),
                                 ok |-> out.ok, raised |-> "none"]
    /\ UNCHANGED persist_dir
    /\ UNCHANGED <<jdVars, program, index, rerankVars, retrievalVars, cli, chatVars>>

\* outside the program: the persist directory is removed, or its files damaged
DiskChange ==
    /\ program = "service"
    /\ \E c \in {Missing, Corrupt} :
          /\ disk[persist_dir] # c
          /\ disk' = [disk EXCEPT ![persist_dir] = c]
    /\ last_saved' = None
    /\ vs_call' = [NoStoreCall EXCEPT !.op = "disk_change"]
    /\ UNCHANGED <<persist_dir, vs_index>>
    /\ UNCHANGED <<jdVars, program, index, rerankVars, retrievalVars, cli, chatVars>>

-----------------------------------------------------------------------------
(* main.py: get_job_description_from_user *)

MaxLines == 4        \* most lines typed at the job description prompt

\* lines typed at the job description prompt
JobInputLines ==
    { <<>>, <<" ">>, <<"a">>, <<" ", "b", " ">>,
      <<" ", "D", "e", "f", "a", "u", "l", "t">> }

\* the built-in job description the code returns, unstripped (shortened)
DefaultJobDescription == <<"\n", " ", "C", "P", "A", "\n", " ">>

\* "\n".join(lines)
RECURSIVE JoinLines(_)
JoinLines(lines) ==
    IF lines = <<>> THEN <<>>
    ELSE IF Len(lines) = 1 THEN Head(lines)
    ELSE Head(lines) \o <<"\n">> \o JoinLines(Tail(lines))

\* str.strip() with line breaks: blanks and newlines removed at both ends
RECURSIVE StripWhite(_)
StripWhite(s) ==
    IF s # <<>> /\ Head(s) \in {" ", "\n"} THEN StripWhite(Tail(s))
    ELSE IF s # <<>> /\ s[Len(s)] \in {" ", "\n"} THEN StripWhite(SubSeq(s, 1, Len(s) - 1))
    ELSE s

\* line 68: `line.strip().lower() == 'default' and not lines`
WantsDefault(line, lines) ==
    Lower(Strip(line)) = <<"d", "e", "f", "a", "u", "l", "t">> /\ lines = <<>>

\* lines 93-108: the value returned after the loop
JobDescriptionOf(lines) ==
    IF StripWhite(JoinLines(lines)) = <<>> THEN DefaultJobDescription
    ELSE StripWhite(JoinLines(lines))

\* one iteration of the loop for a line that input() returned: lines 65-82,
\* and lines 93-108 when the loop breaks
JobReadLine ==
    /\ program = "main"
    /\ jd_status = "reading"
    /\ Len(jd_typed) < MaxLines
    /\ \E line \in JobInputLines :
          /\ jd_typed' = Append(jd_typed, line)
          /\ IF WantsDefault(line, jd_lines)
             THEN /\ jd_status' = "returned"
                  /\ jd_result' = DefaultJobDescription
                  /\ UNCHANGED <<jd_lines, empty_line_count>>
             ELSE IF Strip(line) = <<>>
             THEN /\ empty_line_count' = empty_line_count + 1
                  /\ UNCHANGED jd_lines
                  /\ IF empty_line_count' >= 2
                     THEN jd_status' = "returned" /\ jd_result' = JobDescriptionOf(jd_lines)
                     ELSE UNCHANGED <<jd_status, jd_result>>
             ELSE /\ empty_line_count' = 0
                  /\ jd_lines' = Append(jd_lines, line)
                  /\ UNCHANGED <<jd_status, jd_result>>
    /\ UNCHANGED <<storeVars, program, index, rerankVars, retrievalVars, cli, chatVars>>

\* Ctrl-C while input() waits: lines 84-91
JobInterrupt ==
    /\ program = "main"
    /\ jd_status = "reading"
    /\ jd_status' = "returned"
    /\ jd_result' = DefaultJobDescription
    /\ UNCHANGED <<jd_lines, empty_line_count, jd_typed>>
    /\ UNCHANGED <<storeVars, program, index, rerankVars, retrievalVars, cli, chatVars>>

\* the input ends: input() raises EOFError, which the loop's
\* `except KeyboardInterrupt` does not catch
JobEndOfInput ==
    /\ program = "main"
    /\ jd_status = "reading"
    /\ jd_status' = "raised"
    /\ UNCHANGED <<jd_lines, empty_line_count, jd_typed, jd_result>>
    /\ UNCHANGED <<storeVars, program, index, rerankVars, retrievalVars, cli, chatVars>>

-----------------------------------------------------------------------------
(* Specifications *)

\* the re-ranking service with its caller's arguments, or main.py over a corpus
InitRerank ==
    /\ program \in {"service", "main"}
    /\ IF program = "service"
       THEN index = <<>> /\ candidates \in NodeLists /\ boost_keywords \in KeywordLists
       ELSE index \in Indexes /\ candidates = <<>> /\ boost_keywords = <<>>
    /\ top_candidates = <<>>
    /\ rk_call = NoRerankCall
    /\ configured_k = 5
    /\ similarity_top_k = configured_k
    /\ retriever = None
    /\ retrieved_nodes = <<>>
    /\ rt_call = NoRetrievalCall
    /\ cli = NoCliRun
    /\ chat_engine = "None"
    /\ memory = None
    /\ session = "not_started"
    /\ ch_call = NoChatCall
    /\ token_limit = 16
    /\ start_memory = None
    /\ pending = <<>>
    /\ in_flight = 0
    /\ persist_dir = DefaultLocation
    /\ disk = [l \in Locations |-> EmptyDir]
    /\ vs_index = None
    /\ vs_call = NoStoreCall
    /\ last_saved = None
    /\ jd_lines = <<>>
    /\ empty_line_count = 0
    /\ jd_typed = <<>>
    /\ jd_status = "reading"
    /\ jd_result = <<>>

NextRerank == SimpleRerank \/ AdvancedRerank \/ CliPipeline

SpecRerank == InitRerank /\ [][NextRerank]_vars

\* the retrieval service over an index, or main.py over a corpus
InitRetrieval ==
    /\ program \in {"service", "main"}
    /\ index \in Indexes
    /\ candidates = <<>>
    /\ boost_keywords = <<>>
    /\ top_candidates = <<>>
    /\ rk_call = NoRerankCall
    /\ configured_k \in {2, 5}
    /\ similarity_top_k = configured_k
    /\ retriever = None
    /\ retrieved_nodes = <<>>
    /\ rt_call = NoRetrievalCall
    /\ cli = NoCliRun
    /\ chat_engine = "None"
    /\ memory = None
    /\ session = "not_started"
    /\ ch_call = NoChatCall
    /\ token_limit = 16
    /\ start_memory = None
    /\ pending = <<>>
    /\ in_flight = 0
    /\ persist_dir = DefaultLocation
    /\ disk = [l \in Locations |-> EmptyDir]
    /\ vs_index = None
    /\ vs_call = NoStoreCall
    /\ last_saved = None
    /\ jd_lines = <<>>
    /\ empty_line_count = 0
    /\ jd_typed = <<>>
    /\ jd_status = "reading"
    /\ jd_result = <<>>

NextRetrieval == CreateRetriever \/ Retrieve \/ CliPipeline

SpecRetrieval == InitRetrieval /\ [][NextRetrieval]_vars

\* the chatbot service over an index
InitChat ==
    /\ program = "service"
    /\ index \in {<<>>, <<2, 1, 3>>}
    /\ candidates = <<>>
    /\ boost_keywords = <<>>
    /\ top_candidates = <<>>
    /\ rk_call = NoRerankCall
    /\ configured_k = 5
    /\ similarity_top_k = configured_k
    /\ retriever = None
    /\ retrieved_nodes = <<>>
    /\ rt_call = NoRetrievalCall
    /\ cli = NoCliRun
    /\ chat_engine = "None"
    /\ memory = None
    /\ session = "not_started"
    /\ ch_call = NoChatCall
    /\ token_limit \in TokenLimits
    /\ start_memory = None
    /\ pending = <<>>
    /\ in_flight = 0
    /\ persist_dir = DefaultLocation
    /\ disk = [l \in Locations |-> EmptyDir]
    /\ vs_index = None
    /\ vs_call = NoStoreCall
    /\ last_saved = None
    /\ jd_lines = <<>>
    /\ empty_line_count = 0
    /\ jd_typed = <<>>
    /\ jd_status = "reading"
    /\ jd_result = <<>>

NextChat ==
    \/ CreateChatEngine
    \/ Chat
    \/ ResetConversation
    \/ StartInteractiveSession
    \/ LoopInput
    \/ LoopChat
    \/ LoopInterrupt
    \/ LoopEndOfInput

SpecChat == InitChat /\ [][NextChat]_vars

\* the vector store service over a disk: the manager is built with a persist_dir
\* argument, over locations that are absent, damaged or hold an earlier index
InitStore ==
    /\ program = "service"
    /\ \E arg \in {None, Some("custom")} :
       \E d \in [Locations -> {Missing, Corrupt, Persisted(<<2, 1>>)}] :
          /\ persist_dir = PersistDir(arg)
          /\ disk = AfterMkdir(d, PersistDir(arg))
          /\ last_saved = None
    /\ vs_index = None
    /\ vs_call = NoStoreCall
    /\ jd_lines = <<>>
    /\ empty_line_count = 0
    /\ jd_typed = <<>>
    /\ jd_status = "reading"
    /\ jd_result = <<>>
    /\ index = <<>>
    /\ candidates = <<>>
    /\ boost_keywords = <<>>
    /\ top_candidates = <<>>
    /\ rk_call = NoRerankCall
    /\ configured_k = 5
    /\ similarity_top_k = configured_k
    /\ retriever = None
    /\ retrieved_nodes = <<>>
    /\ rt_call = NoRetrievalCall
    /\ cli = NoCliRun
    /\ chat_engine = "None"
    /\ memory = None
    /\ session = "not_started"
    /\ ch_call = NoChatCall
    /\ token_limit = 16
    /\ start_memory = None
    /\ pending = <<>>
    /\ in_flight = 0

NextStore == CreateIndex \/ SaveIndex \/ LoadIndex \/ CreateAndSaveIndex \/ DiskChange

SpecStore == InitStore /\ [][NextStore]_vars

\* main.py asking for the job description
InitJobInput ==
    /\ program = "main"
    /\ persist_dir = DefaultLocation
    /\ disk = [l \in Locations |-> EmptyDir]
    /\ vs_index = None
    /\ vs_call = NoStoreCall
    /\ last_saved = None
    /\ jd_lines = <<>>
    /\ empty_line_count = 0
    /\ jd_typed = <<>>
    /\ jd_status = "reading"
    /\ jd_result = <<>>
    /\ index = <<>>
    /\ candidates = <<>>
    /\ boost_keywords = <<>>
    /\ top_candidates = <<>>
    /\ rk_call = NoRerankCall
    /\ configured_k = 5
    /\ similarity_top_k = configured_k
    /\ retriever = None
    /\ retrieved_nodes = <<>>
    /\ rt_call = NoRetrievalCall
    /\ cli = NoCliRun
    /\ chat_engine = "None"
    /\ memory = None
    /\ session = "not_started"
    /\ ch_call = NoChatCall
    /\ token_limit = 16
    /\ start_memory = None
    /\ pending = <<>>
    /\ in_flight = 0

NextJobInput == JobReadLine \/ JobInterrupt \/ JobEndOfInput

SpecJobInput == InitJobInput /\ [][NextJobInput]_vars

-----------------------------------------------------------------------------
(* Properties of re-ranking, checked under SpecRerank *)

\* position of chunk n in a list of scored nodes
PosOf(list, n) == CHOOSE i \in DOMAIN list : list[i].node = n

\* r is the first min(n, len) elements of input, unchanged
IsFirstN(r, input, n) ==
    /\ Len(r) = Min(n, Len(input))
    /\ \A i \in 1..Len(r) : r[i] = input[i]

SortedDesc(list) == \A i, j \in DOMAIN list : i < j => list[i].score >= list[j].score

\* C1: for every candidate list and every top_n >= 1, simple_rerank (the method
\* and main.py's function) returns the first top_n elements of its input, in the
\* same order and with the same scores.
C1_SimpleRerankReturnsFirstTopN ==
    /\ (rk_call.op = "simple" /\ rk_call.top_n >= 1)
          => IsFirstN(rk_call.result, rk_call.nodes, rk_call.top_n)
    /\ (cli.outcome = "complete" /\ Val(cli.top_n) >= 1)
          => IsFirstN(cli.top_candidates, cli.retrieved_nodes, Val(cli.top_n))

\* a simple_rerank call that cut an unsorted three-element list to two
C1_Witness ==
    /\ rk_call.op = "simple" /\ rk_call.top_n = 2
    /\ Len(rk_call.nodes) = 3 /\ Len(rk_call.result) = 2
    /\ rk_call.nodes[1].score < rk_call.nodes[2].score

\* C2: for every candidate list and every top_n >= 1, simple_rerank and
\* advanced_rerank return min(top_n, len(candidates)) elements and raise nothing;
\* a top_n above the candidate count returns all candidates.
C2_RerankLengthIsMin ==
    (rk_call.op \in {"simple", "advanced"} /\ rk_call.top_n >= 1)
        => /\ Len(rk_call.result) = Min(rk_call.top_n, Len(rk_call.nodes))
           /\ rk_call.error = "none"
           /\ top_candidates = rk_call.result

\* an advanced_rerank call whose top_n exceeds the candidate count
C2_Witness ==
    /\ rk_call.op = "advanced"
    /\ Len(rk_call.nodes) = 2 /\ rk_call.top_n = 3
    /\ Len(rk_call.result) = 2

\* C3: re-ranking with top_n <= 0 fails with InvalidArgument and returns no
\* list, in simple_rerank, in advanced_rerank and from the --top-n option.
C3_NonPositiveTopNRejected ==
    /\ (rk_call.op \in {"simple", "advanced"} /\ rk_call.top_n <= 0)
          => rk_call.error = "InvalidArgument"
    /\ (cli.done /\ cli.queried /\ cli.outcome # "exit(1)"
            /\ cli.args_top_n # None /\ Val(cli.args_top_n) <= 0)
          => cli.outcome = "InvalidArgument"

\* number of case-insensitive literal occurrences of boost terms in a text:
\* every place in the text where an entry of the keyword list occurs
TermOccurrences(kws, text) ==
    Cardinality({ p \in (DOMAIN kws) \X (0..Len(text)) :
                    /\ p[2] + Len(kws[p[1]]) <= Len(text)
                    /\ SubSeq(Lower(text), p[2] + 1, p[2] + Len(kws[p[1]])) = Lower(kws[p[1]]) })

\* number of entries of the keyword list that occur in a text, whatever the case
MatchingEntries(kws, text) ==
    Cardinality({ j \in DOMAIN kws : Contains(Lower(kws[j]), Lower(text)) })

\* the input node a returned node was copied from
Original(call, nd) == call.nodes[PosOf(call.nodes, nd.node)]

\* C4 as stated: with boost terms, each new score is score * (1 + min(0.05*m, 0.20))
\* where m is the number of occurrences of boost terms in the chunk text.
C4_BoostCountsOccurrences ==
    (rk_call.op = "advanced" /\ rk_call.keywords # <<>>)
        => \A i \in DOMAIN rk_call.result :
              LET nd == rk_call.result[i]
                  m == TermOccurrences(rk_call.keywords, TextOf(nd))
              IN  nd.score * 100 = Original(rk_call, nd).score * (100 + Min(5 * m, 20))

\* C4 amended: with boost keywords, each new score is score * (1 + min(0.05*m, 0.20))
\* where m is the number of keyword list entries that occur at least once,
\* case-insensitively, in the chunk text.
C4_BoostCountsMatchingKeywords ==
    (rk_call.op = "advanced" /\ rk_call.keywords # <<>>)
        => \A i \in DOMAIN rk_call.result :
              LET nd == rk_call.result[i]
                  m == MatchingEntries(rk_call.keywords, TextOf(nd))
              IN  nd.score * 100 = Original(rk_call, nd).score * (100 + Min(5 * m, 20))

\* advanced_rerank with the one keyword "CPA" returned the chunk "cpa CPA",
\* scored 0.8, with the score 0.84
C4_Witness ==
    /\ rk_call.op = "advanced"
    /\ rk_call.keywords = << <<"C", "P", "A">> >>
    /\ \E i \in DOMAIN rk_call.result :
          /\ rk_call.result[i].node = 3
          /\ Original(rk_call, rk_call.result[i]).score = 8000
          /\ rk_call.result[i].score = 8400

BoostedOf(call, nd) == BoostedNode(nd, call.keywords).score

\* C6: advanced_rerank returns a list in descending boosted score, equal scores
\* in their input order, and every candidate left out scores no higher than
\* every returned one (and comes later in the input when it scores the same).
C6_SortedStableBeforeTruncation ==
    rk_call.op = "advanced"
        => LET r == rk_call.result
               left_out == { nd \in Range(rk_call.nodes) :
                               \A i \in DOMAIN r : r[i].node # nd.node }
           IN  /\ SortedDesc(r)
               /\ \A i, j \in DOMAIN r :
                     (i < j /\ r[i].score = r[j].score)
                        => PosOf(rk_call.nodes, r[i].node) < PosOf(rk_call.nodes, r[j].node)
               /\ \A nd \in left_out : \A i \in DOMAIN r :
                     \/ BoostedOf(rk_call, nd) < r[i].score
                     \/ /\ BoostedOf(rk_call, nd) = r[i].score
                        /\ PosOf(rk_call.nodes, nd.node) > PosOf(rk_call.nodes, r[i].node)

\* advanced_rerank reordered its input, returned two candidates with equal
\* boosted scores and left one candidate out
C6_Witness ==
    /\ rk_call.op = "advanced" /\ rk_call.keywords # <<>>
    /\ Len(rk_call.result) = 2 /\ Len(rk_call.nodes) = 3
    /\ rk_call.result[1].score = rk_call.result[2].score
    /\ rk_call.result[1].node # rk_call.nodes[1].node
    /\ rk_call.nodes[1].score > rk_call.nodes[2].score

-----------------------------------------------------------------------------
(* Properties of retrieval, checked under SpecRetrieval *)

\* the k a retrieve call asked for: its top_k, or the manager's k when none is given
RequestedK == IF rt_call.top_k # None THEN Val(rt_call.top_k) ELSE similarity_top_k

\* C7: for every k > 0 and non-empty index, retrieve (the method and main.py's
\* retrieve_candidates) returns at most k results in descending similarity.
C7_AtMostKSortedDesc ==
    /\ (rt_call.op = "retrieve" /\ rt_call.error = "none" /\ index # <<>> /\ RequestedK > 0)
          => /\ Len(retrieved_nodes) <= RequestedK
             /\ SortedDesc(retrieved_nodes)
    /\ (cli.outcome = "complete" /\ Val(cli.top_k) > 0)
          => /\ Len(cli.retrieved_nodes) <= Val(cli.top_k)
             /\ SortedDesc(cli.retrieved_nodes)

\* retrieve(top_k=2) over three chunks returned two, the first of them not the
\* first chunk inserted
C7_Witness ==
    /\ rt_call.op = "retrieve" /\ rt_call.top_k = Some(2)
    /\ Len(index) = 3 /\ Len(retrieved_nodes) = 2
    /\ retrieved_nodes[1].node # index[1]
    /\ retrieved_nodes[1].score > retrieved_nodes[2].score

\* C8: retrieve with k <= 0 fails with InvalidArgument instead of running a
\* query, from RetrievalManager.retrieve(top_k=k) and from the --top-k option.
C8_NonPositiveKRejected ==
    /\ (rt_call.op = "retrieve" /\ rt_call.top_k # None /\ Val(rt_call.top_k) <= 0)
          => (rt_call.error = "InvalidArgument" /\ ~rt_call.queried)
    /\ (cli.done /\ index # <<>> /\ cli.args_top_k # None /\ Val(cli.args_top_k) <= 0)
          => (cli.outcome = "InvalidArgument" /\ ~cli.queried)

-----------------------------------------------------------------------------
(* Properties of the conversation session, checked under SpecChat *)

\* C10: a chat call made after the session has ended (the interactive session
\* left its loop on an exit signal) fails with SessionTerminated, reaches neither
\* the index nor the Generator and leaves the memory unchanged.
C10_ChatAfterEndRejected ==
    (ch_call.op = "chat" /\ ch_call.during = "returned")
        => /\ ch_call.error = "SessionTerminated"
           /\ ch_call.index_queries = 0
           /\ ch_call.generator_calls = 0
           /\ ~ch_call.memory_changed

-----------------------------------------------------------------------------
(* Conversation memory *)

\* the turn that carries the job description given at start
IsJobContextTurn(t) ==
    \E jd \in JobDescriptions :
        jd # None /\ t.text = InitialMessage(Val(jd)) /\ t.role \in {"user", "system"}

HasJobContext(mem) ==
    IF mem = None THEN FALSE ELSE \E t \in Range(Val(mem)) : IsJobContextTurn(t)

MemoryEmpty(mem) == IF mem = None THEN TRUE ELSE Val(mem) = <<>>

\* C11: after reset_conversation the memory equals the memory as it was right
\* after the session was started (user turns gone, job context kept).
C11_ResetRestoresStartMemory ==
    (ch_call.op = "reset_conversation" /\ memory # None) => memory = start_memory

\* C12: under the token limit the oldest other turns go first: a step never
\* removes the job-context turn from a memory that still holds another turn.
C12_JobContextEvictedLast ==
    [][ (HasJobContext(memory) /\ ~HasJobContext(memory')) => MemoryEmpty(memory') ]_vars

\* C13: whatever calls have been made, the token count of the conversation
\* memory is at most the manager's token limit.
C13_MemoryWithinTokenLimit ==
    memory # None => TokenCount(Val(memory)) <= token_limit

\* a call has just evicted turns and left a non-empty memory within the limit
C13_Witness ==
    /\ ch_call.op \in {"chat", "turn"}
    /\ ch_call.evicted
    /\ memory # None
    /\ Val(memory) # <<>>
    /\ TokenCount(Val(memory)) <= token_limit

-----------------------------------------------------------------------------
(* Turns, failures and the interactive loop *)

\* the memory ends with the user turn of the last call and nothing after it
EndsWithUserTurnOfCall ==
    /\ memory # None
    /\ Val(memory) # <<>>
    /\ Val(memory)[Len(Val(memory))] = Turn("user", ch_call.message)

\* C14: a Generator failure during an interactive turn is reported and the
\* session goes on: the loop is back at the prompt with its engine, and the
\* next input can be read.
C14_GeneratorFailureKeepsSession ==
    (ch_call.op = "turn" /\ ch_call.error = "GeneratorFailure")
        => /\ ch_call.caught
           /\ session = "reading"
           /\ CanReadInput(session)
           /\ chat_engine = "engine"
           /\ ch_call.displayed = None

\* a turn of the loop has failed in the Generator and the loop is at the prompt
C14_Witness ==
    /\ ch_call.op = "turn"
    /\ ch_call.error = "GeneratorFailure"
    /\ ch_call.caught
    /\ session = "reading"

\* C15: after a turn whose Generator call failed, the memory holds that turn's
\* user turn and no assistant turn for it.
C15_FailedTurnKeepsUserTurn ==
    (ch_call.op \in {"chat", "turn"} /\ ch_call.error = "GeneratorFailure")
        => EndsWithUserTurnOfCall

\* a blank text has been submitted: to chat() with an engine, or at the prompt
BlankSubmitted ==
    \/ ch_call.op = "chat" /\ chat_engine = "engine" /\ Strip(ch_call.message) = <<>>
    \/ /\ ch_call.op = "input"
       /\ ch_call.message = <<>>
       /\ ch_call.error \notin {"KeyboardInterrupt", "EOFError"}

\* C16: a text that is blank after trimming is refused with EmptyInput before
\* anything happens: no turn appended, no index query, no Generator call.
C16_BlankInputRejected ==
    BlankSubmitted
        => /\ ch_call.error = "EmptyInput"
           /\ ch_call.index_queries = 0
           /\ ch_call.generator_calls = 0
           /\ ~ch_call.memory_changed

\* C17: a job description given at start is in the memory as a system-level
\* turn once the start has succeeded, before any input is read, and nothing of
\* that exchange is displayed.
C17_JobContextIsSystemTurn ==
    (/\ ch_call.op \in {"create_chat_engine", "start_interactive_session"}
     /\ ch_call.message # <<>>
     /\ ch_call.error = "none")
        => /\ memory # None
           /\ Turn("system", ch_call.message) \in Range(Val(memory))
           /\ ch_call.displayed = None

C19_NoAutomaticRetry ==
    [][ /\ (ch_call'.op = "turn" /\ ch_call' # ch_call) => session = "chatting"
        /\ (session = "chatting" /\ session' # "chatting")
              => /\ ch_call'.op = "turn"
                 /\ ch_call'.message = pending
                 /\ ch_call'.generator_calls <= 1
                 /\ ch_call'.index_queries <= 1
                 /\ pending' = <<>>
                 /\ in_flight' = 0
        /\ (ch_call'.op = "chat" /\ ch_call' # ch_call) => ch_call'.generator_calls <= 1
      ]_vars

\* a turn has failed after exactly one Generator call and nothing is pending
C19_Witness ==
    /\ ch_call.op = "turn"
    /\ ch_call.error \in {"GeneratorFailure", "EmbedderFailure"}
    /\ ch_call.generator_calls + ch_call.index_queries >= 1
    /\ pending = <<>>
    /\ in_flight = 0

\* C20: a turn interrupted while it waits for the Generator leaves its user
\* turn in the memory and no assistant turn for it.
C20_CancelledTurnKeepsUserTurn ==
    (ch_call.op \in {"chat", "turn"} /\ ch_call.error = "KeyboardInterrupt")
        => EndsWithUserTurnOfCall

-----------------------------------------------------------------------------
(* Properties of the vector store, checked under SpecStore *)

\* C21: load_index on a missing location fails with IndexNotFound, on a corrupt
\* one with IndexCorrupt, and a failed load never returns an index.
C21_LoadFailureIsTyped ==
    vs_call.op = "load_index"
        => /\ vs_call.found \in {"missing", "empty"} => vs_call.raised = "IndexNotFound"
           /\ vs_call.found = "corrupt" => vs_call.raised = "IndexCorrupt"
           /\ vs_call.found # "index" => vs_call.returned = None

\* two indexes answer every probe query and every k with the same chunks, in
\* the same order, with the same scores
QueryEquivalent(a, b) ==
    \A query \in Queries, k \in 1..MaxK :
        LibraryRetrieve(a, query, k) = LibraryRetrieve(b, query, k)

C24_NoChunkFromEmptyDocument ==
    (/\ vs_call.op \in {"create_index", "create_and_save_index"}
     /\ vs_call.raised = "none"
     /\ vs_index # None)
        => \A d \in Range(Val(vs_index)) : DocText(d) # <<>>

-----------------------------------------------------------------------------
(* Further properties of retrieval, checked under SpecRetrieval *)

C25_RejectedRetrieveChangesNothing ==
    [][ (/\ rt_call'.op = "retrieve"
         /\ rt_call'.error # "none"
         /\ IF rt_call'.top_k # None THEN Val(rt_call'.top_k) <= 0 ELSE FALSE)
           => /\ similarity_top_k' = similarity_top_k
              /\ retriever' = retriever
              /\ retrieved_nodes' = retrieved_nodes ]_vars

\* C26: whenever a retriever exists its k is the manager's similarity_top_k,
\* and the number of retrieved nodes never exceeds it.
C26_RetrieverKIsCurrentK ==
    retriever # None
        => /\ Val(retriever) = similarity_top_k
           /\ Len(retrieved_nodes) <= similarity_top_k

-----------------------------------------------------------------------------
(* Further properties of the chatbot, checked under SpecChat *)

\* C27: a failure while the job description is injected at session start is
\* not handled: it leaves start_interactive_session uncaught, the loop is not
\* entered and no input is read.
C27_StartFailurePropagates ==
    /\ (ch_call.op = "start_interactive_session" /\ ch_call.error # "none")
          => /\ ~ch_call.caught
             /\ session = "raised"
             /\ ~CanReadInput(session)
    /\ session = "raised"
          => /\ ch_call.op \notin {"input", "turn"}
             /\ pending = <<>>
             /\ in_flight = 0

\* the Generator has failed on the job description at session start
C27_Witness ==
    /\ ch_call.op = "start_interactive_session"
    /\ ch_call.error = "GeneratorFailure"
    /\ ch_call.message # <<>>
    /\ ch_call.generator_calls = 1
    /\ session = "raised"

\* C28: before create_chat_engine, chat raises without a call to the index or
\* the Generator and without creating a memory, and reset_conversation does
\* nothing and raises nothing.
C28_BeforeStartNothingHappens ==
    /\ (ch_call.op = "chat" /\ chat_engine = "None")
          => /\ ch_call.error = "RuntimeError"
             /\ ch_call.index_queries = 0
             /\ ch_call.generator_calls = 0
             /\ memory = None
    /\ (ch_call.op = "reset_conversation" /\ chat_engine = "None")
          => /\ ch_call.error = "none"
             /\ ~ch_call.memory_changed
             /\ memory = None

\* reset_conversation has been called on a manager that has no engine yet
C28_Witness ==
    /\ ch_call.op = "reset_conversation"
    /\ chat_engine = "None"
    /\ memory = None
    /\ session = "not_started"

-----------------------------------------------------------------------------
(* Further properties of re-ranking, checked under SpecRerank *)

\* C29: advanced_rerank leaves its input as it was, order, length and scores,
\* and of the manager's state changes only top_candidates, which is the
\* returned list.
C29_AdvancedRerankKeepsInput ==
    [][ (rk_call'.op = "advanced" /\ rk_call'.nodes = candidates)
          => /\ candidates' = candidates
             /\ top_candidates' = rk_call'.result
             /\ boost_keywords' = boost_keywords
             /\ UNCHANGED <<index, retrievalVars, chatVars, storeVars>> ]_vars

\* an advanced_rerank call has boosted a score and changed the order
C29_Witness ==
    /\ rk_call.op = "advanced"
    /\ Len(rk_call.nodes) >= 2
    /\ rk_call.result # <<>>
    /\ rk_call.result[1].node # rk_call.nodes[1].node
    /\ \E i \in DOMAIN rk_call.nodes :
          BoostedNode(rk_call.nodes[i], rk_call.keywords) # rk_call.nodes[i]
    /\ candidates = rk_call.nodes
    /\ top_candidates = rk_call.result

-----------------------------------------------------------------------------
(* Properties of the job description prompt, checked under SpecJobInput *)

\* the typed lines that are not blank, in order
RECURSIVE NonBlankLines(_)
NonBlankLines(typed) ==
    IF typed = <<>> THEN <<>>
    ELSE (IF Strip(Head(typed)) # <<>> THEN <<Head(typed)>> ELSE <<>>)
         \o NonBlankLines(Tail(typed))

\* the function has returned what the typed lines call for: the built-in
\* default, or the non-blank lines entered, joined in order
ReturnedForTyped ==
    /\ StripWhite(jd_result) # <<>>
    /\ \/ jd_result = DefaultJobDescription
       \/ /\ jd_lines # <<>>
          /\ jd_lines = NonBlankLines(jd_typed)
          /\ jd_result = StripWhite(JoinLines(jd_lines))
          /\ Len(jd_typed) >= 2
          /\ Strip(jd_typed[Len(jd_typed)]) = <<>>
          /\ Strip(jd_typed[Len(jd_typed) - 1]) = <<>>
    /\ jd_lines = <<>> => jd_result = DefaultJobDescription

\* C30: however the input goes, once get_job_description_from_user has stopped
\* reading it has returned a non-blank job description: the non-blank lines
\* typed before two consecutive blank lines, or the built-in default.
C30_JobDescriptionAlwaysReturned ==
    jd_status # "reading" => (jd_status = "returned" /\ ReturnedForTyped)

====
